---- MODULE Spec2Model ----
(***************************************************************************)
(* A model of termcolor: the text formatter (src/src/format.rs) and the    *)
(* colour swatch tool (src/src/main.rs).                                   *)
(*                                                                         *)
(* Strings are sequences of one-character strings; the escape character    *)
(* 0x1b is the element "ESC" and the line feed is the element "LF".        *)
(***************************************************************************)
EXTENDS Integers, Sequences, FiniteSets, TLC

VARIABLES
    pc,      \* the position of the program, or of the call under study
    argv,    \* the words given on the command line, before clap parses them
    args,    \* the parsed Args
    stdout,  \* what has been written to standard output
    grid,    \* main.rs: the sample sequences hues, values and saturations
    input,   \* the arguments of the function under study
    ret      \* the value the function under study returned

vars == <<pc, argv, args, stdout, grid, input, ret>>

None == "None"

(***************************************************************************)
(* Bounds of the model.                                                    *)
(***************************************************************************)
MaxOptions == 2
MaxText == 2
MaxResolution == 6
MaxTruncate == 2
HueGrid == 12
SvGrid == 4
MaxHues == 3
MaxSamples == 2

(***************************************************************************)
(* format.rs: constants.                                                   *)
(***************************************************************************)
CODE_START == <<"ESC", "[">>
CODE_END == <<"m">>
RESET == <<"ESC", "[", "m">>

(***************************************************************************)
(* format.rs: the enumerations and the names clap accepts for them.        *)
(***************************************************************************)
FormattingOption == {"Bold", "Dim", "Underline", "Inverted", "Strikethrough"}

Color == {"Black", "White", "Red", "Green", "Blue", "Yellow", "Cyan", "Magenta",
          "BrightBlack", "BrightWhite", "BrightRed", "BrightGreen", "BrightBlue",
          "BrightYellow", "BrightCyan", "BrightMagenta"}

Style == {"Ok", "Notice", "Error", "Warn", "Info", "Debug"}

\* The names of a colour: the variant in kebab case and its aliases.
ColorNames(c) ==
    CASE c = "Black" -> {"black", "k"}
      [] c = "White" -> {"white", "w"}
      [] c = "Red" -> {"red", "r"}
      [] c = "Green" -> {"green", "g"}
      [] c = "Blue" -> {"blue", "b"}
      [] c = "Yellow" -> {"yellow", "y"}
      [] c = "Cyan" -> {"cyan", "c"}
      [] c = "Magenta" -> {"magenta", "m"}
      [] c = "BrightBlack" -> {"bright-black", "K", "BLACK"}
      [] c = "BrightWhite" -> {"bright-white", "W", "WHITE"}
      [] c = "BrightRed" -> {"bright-red", "R", "RED"}
      [] c = "BrightGreen" -> {"bright-green", "G", "GREEN"}
      [] c = "BrightBlue" -> {"bright-blue", "B", "BLUE"}
      [] c = "BrightYellow" -> {"bright-yellow", "Y", "YELLOW"}
      [] c = "BrightCyan" -> {"bright-cyan", "C", "CYAN"}
      [] c = "BrightMagenta" -> {"bright-magenta", "M", "MAGENTA"}

AllColorNames == UNION {ColorNames(c) : c \in Color}

\* clap's value parser of Color: the variant one of whose names is the word.
ParseColor(name) ==
    IF name = None THEN None ELSE CHOOSE c \in Color : name \in ColorNames(c)

\* The names of a formatting option: the variant in kebab case and its alias.
OptionNames(o) ==
    CASE o = "Bold" -> {"bold", "b"}
      [] o = "Dim" -> {"dim", "d"}
      [] o = "Underline" -> {"underline", "u"}
      [] o = "Inverted" -> {"inverted", "i"}
      [] o = "Strikethrough" -> {"strikethrough", "s"}

ParseOption(name) == CHOOSE o \in FormattingOption : name \in OptionNames(o)

\* The name of a style: the variant in kebab case.
StyleName(st) ==
    CASE st = "Ok" -> "ok"
      [] st = "Notice" -> "notice"
      [] st = "Error" -> "error"
      [] st = "Warn" -> "warn"
      [] st = "Info" -> "info"
      [] st = "Debug" -> "debug"

ParseStyle(name) ==
    IF name = None THEN None ELSE CHOOSE st \in Style : name = StyleName(st)

\* Args::parse: every word replaced by the variant it names.
ParseArgs(words) ==
    [text |-> words.text,
     style |-> ParseStyle(words.style),
     foreground |-> ParseColor(words.foreground),
     background |-> ParseColor(words.background),
     options |-> [i \in 1..Len(words.options) |-> ParseOption(words.options[i])],
     reset |-> words.reset, no_reset |-> words.no_reset,
     no_newline |-> words.no_newline]

(***************************************************************************)
(* format.rs: the code tables.                                             *)
(***************************************************************************)
get_format_code(option) ==
    CASE option = "Bold" -> 1
      [] option = "Dim" -> 2
      [] option = "Underline" -> 4
      [] option = "Inverted" -> 7
      [] option = "Strikethrough" -> 9

\* get_color_code_digit with the bright variants given the base digits.
get_color_code_digit_base_only(color) ==
    CASE color \in {"Black", "BrightBlack"} -> 0
      [] color \in {"Red", "BrightRed"} -> 1
      [] color \in {"Green", "BrightGreen"} -> 2
      [] color \in {"Yellow", "BrightYellow"} -> 3
      [] color \in {"Blue", "BrightBlue"} -> 4
      [] color \in {"Magenta", "BrightMagenta"} -> 5
      [] color \in {"Cyan", "BrightCyan"} -> 6
      [] color \in {"White", "BrightWhite"} -> 7

get_color_code_digit(color) ==
    CASE color = "Black" -> 0
      [] color = "Red" -> 1
      [] color = "Green" -> 2
      [] color = "Yellow" -> 3
      [] color = "Blue" -> 4
      [] color = "Magenta" -> 5
      [] color = "Cyan" -> 6
      [] color = "White" -> 7
      [] color = "BrightBlack" -> 60
      [] color = "BrightRed" -> 61
      [] color = "BrightGreen" -> 62
      [] color = "BrightYellow" -> 63
      [] color = "BrightBlue" -> 64
      [] color = "BrightMagenta" -> 65
      [] color = "BrightCyan" -> 66
      [] color = "BrightWhite" -> 67

(***************************************************************************)
(* Strings: u8::to_string and [String]::join.                              *)
(***************************************************************************)
DigitChars == <<"0", "1", "2", "3", "4", "5", "6", "7", "8", "9">>

RECURSIVE to_string(_)
to_string(n) ==
    IF n < 10 THEN <<DigitChars[n + 1]>>
    ELSE to_string(n \div 10) \o <<DigitChars[(n % 10) + 1]>>

RECURSIVE join(_, _)
join(strs, sep) ==
    IF Len(strs) = 0 THEN <<>>
    ELSE IF Len(strs) = 1 THEN strs[1]
    ELSE strs[1] \o sep \o join(Tail(strs), sep)

(***************************************************************************)
(* format.rs: apply_style and format.                                      *)
(***************************************************************************)
\* apply_style without the three assignments that clear the earlier fields.
apply_style_no_clear(a) ==
    CASE a.style = None -> a
      [] a.style = "Ok" -> [a EXCEPT !.foreground = "Green"]
      [] a.style = "Notice" -> [a EXCEPT !.foreground = "Magenta"]
      [] a.style = "Error" -> [a EXCEPT !.foreground = "Red"]
      [] a.style = "Warn" -> [a EXCEPT !.foreground = "Yellow"]
      [] a.style = "Info" -> [a EXCEPT !.foreground = "Cyan"]
      [] a.style = "Debug" ->
           [a EXCEPT !.background = "Cyan", !.foreground = "Black",
                     !.options = Append(a.options, "Dim")]

apply_style(a) ==
    IF a.style = None THEN a
    ELSE LET cleared == [a EXCEPT !.background = None, !.foreground = None,
                                  !.options = <<>>]
         IN CASE a.style = "Ok" -> [cleared EXCEPT !.foreground = "Green"]
              [] a.style = "Notice" -> [cleared EXCEPT !.foreground = "Magenta"]
              [] a.style = "Error" -> [cleared EXCEPT !.foreground = "Red"]
              [] a.style = "Warn" -> [cleared EXCEPT !.foreground = "Yellow"]
              [] a.style = "Info" -> [cleared EXCEPT !.foreground = "Cyan"]
              [] a.style = "Debug" ->
                   [cleared EXCEPT !.background = "Cyan", !.foreground = "Black",
                                   !.options = Append(cleared.options, "Dim")]

\* prop_codes with the option codes pushed before the colour codes.
prop_codes_options_first(a) ==
    [i \in 1..Len(a.options) |-> to_string(get_format_code(a.options[i]))]
    \o (IF a.foreground # None
          THEN <<to_string(30 + get_color_code_digit(a.foreground))>> ELSE <<>>)
    \o (IF a.background # None
          THEN <<to_string(40 + get_color_code_digit(a.background))>> ELSE <<>>)

\* The list prop_codes of format, built from the arguments after apply_style.
prop_codes(a) ==
    (IF a.foreground # None
       THEN <<to_string(30 + get_color_code_digit(a.foreground))>> ELSE <<>>)
    \o (IF a.background # None
          THEN <<to_string(40 + get_color_code_digit(a.background))>> ELSE <<>>)
    \o [i \in 1..Len(a.options) |-> to_string(get_format_code(a.options[i]))]

format(a0) ==
    LET a == apply_style(a0)
        codes == prop_codes(a)
        text == join(a.text, <<" ">>)
        result0 == IF Len(codes) # 0
                     THEN CODE_START \o join(codes, <<";">>) \o CODE_END \o text
                     ELSE text
        result1 == IF a.reset THEN RESET \o result0 ELSE result0
        result2 == IF ~a.no_reset THEN result1 \o RESET ELSE result1
    IN IF ~a.no_newline THEN Append(result2, "LF") ELSE result2

(***************************************************************************)
(* The formatter's inputs.                                                 *)
(***************************************************************************)
SeqsUpTo(S, n) == UNION {[1..k -> S] : k \in 0..n}

Word(i) == IF i % 2 = 1 THEN <<"h", "i">> ELSE <<"y", "o">>

Texts == {[i \in 1..k |-> Word(i)] : k \in 0..MaxText}

\* Every Args value, whether or not clap lets the command line produce it.
ArgsSet(texts) ==
    [text : texts, style : Style \cup {None},
     foreground : Color \cup {None}, background : Color \cup {None},
     options : SeqsUpTo(FormattingOption, MaxOptions),
     reset : BOOLEAN, no_reset : BOOLEAN, no_newline : BOOLEAN]

\* conflicts_with_all: a style comes with no foreground, background or options.
Conflicts(a) ==
    a.style # None /\ (a.foreground # None \/ a.background # None \/ Len(a.options) # 0)

\* The Args values Args::parse can return.
ClapArgs == {a \in ArgsSet(Texts) : ~Conflicts(a)}

\* The texts apply_style is studied on.
StyleTexts == {<<>>, <<Word(1), Word(2)>>}

\* The option lists given on the command line in SpecCli.
CliOptions == {<<>>, <<"b">>, <<"dim", "u">>, <<"s", "inverted", "bold">>}

CliWords ==
    {w \in [text : Texts,
            style : {StyleName(st) : st \in Style} \cup {None},
            foreground : AllColorNames \cup {None},
            background : AllColorNames \cup {None},
            options : CliOptions,
            reset : BOOLEAN, no_reset : BOOLEAN, no_newline : BOOLEAN] :
        ~Conflicts(w)}

(***************************************************************************)
(* SpecFormat: format on every Args value the command line can produce.    *)
(***************************************************************************)
InitFormat ==
    /\ pc = "call"
    /\ input \in ClapArgs
    /\ ret = None
    /\ argv = None /\ args = None /\ stdout = None /\ grid = None

CallFormat ==
    /\ pc = "call"
    /\ ret' = format(input)
    /\ pc' = "returned"
    /\ UNCHANGED <<argv, args, stdout, grid, input>>

NextFormat == CallFormat

SpecFormat == InitFormat /\ [][NextFormat]_vars

(***************************************************************************)
(* SpecApplyStyle: apply_style on every Args value.                        *)
(***************************************************************************)
InitApplyStyle ==
    /\ pc = "call"
    /\ input \in ArgsSet(StyleTexts)
    /\ ret = None
    /\ argv = None /\ args = None /\ stdout = None /\ grid = None

CallApplyStyle ==
    /\ pc = "call"
    /\ ret' = apply_style(input)
    /\ pc' = "returned"
    /\ UNCHANGED <<argv, args, stdout, grid, input>>

NextApplyStyle == CallApplyStyle

SpecApplyStyle == InitApplyStyle /\ [][NextApplyStyle]_vars

(***************************************************************************)
(* SpecCli: the formatter from its command line to its output.             *)
(***************************************************************************)
InitCli ==
    /\ pc = "argv"
    /\ argv \in CliWords
    /\ args = None /\ stdout = None
    /\ grid = None /\ input = None /\ ret = None

Parse ==
    /\ pc = "argv"
    /\ args' = ParseArgs(argv)
    /\ pc' = "parsed"
    /\ UNCHANGED <<argv, stdout, grid, input, ret>>

Run ==
    /\ pc = "parsed"
    /\ stdout' = format(args)
    /\ pc' = "done"
    /\ UNCHANGED <<argv, args, grid, input, ret>>

NextCli == Parse \/ Run

SpecCli == InitCli /\ [][NextCli]_vars

(***************************************************************************)
(* The formatter's output as the specification words it.                   *)
(***************************************************************************)
\* The standard order of the eight base colours.
StandardOrder ==
    <<"Black", "Red", "Green", "Yellow", "Blue", "Magenta", "Cyan", "White">>

BrightOf(base) ==
    CASE base = "Black" -> "BrightBlack"
      [] base = "Red" -> "BrightRed"
      [] base = "Green" -> "BrightGreen"
      [] base = "Yellow" -> "BrightYellow"
      [] base = "Blue" -> "BrightBlue"
      [] base = "Magenta" -> "BrightMagenta"
      [] base = "Cyan" -> "BrightCyan"
      [] base = "White" -> "BrightWhite"

\* Base colours are 0..7 in the standard order, bright ones 60 more.
StatedDigit(color) ==
    LET k == CHOOSE j \in 1..8 : color \in {StandardOrder[j], BrightOf(StandardOrder[j])}
    IN IF color = StandardOrder[k] THEN k - 1 ELSE 60 + k - 1

StatedFlagCode(option) ==
    [Bold |-> 1, Dim |-> 2, Underline |-> 4, Inverted |-> 7, Strikethrough |-> 9][option]

\* The fields a preset sets: <<foreground, background, options>>.
StatedPreset(st) ==
    CASE st = "Ok" -> <<"Green", None, <<>> >>
      [] st = "Notice" -> <<"Magenta", None, <<>> >>
      [] st = "Error" -> <<"Red", None, <<>> >>
      [] st = "Warn" -> <<"Yellow", None, <<>> >>
      [] st = "Info" -> <<"Cyan", None, <<>> >>
      [] st = "Debug" -> <<"Black", "Cyan", <<"Dim">> >>

\* The numbers of the SGR sequence: foreground, background, then the flags.
StatedCodes(a) ==
    LET f == IF a.style = None THEN <<a.foreground, a.background, a.options>>
             ELSE StatedPreset(a.style)
    IN (IF f[1] = None THEN <<>> ELSE <<30 + StatedDigit(f[1])>>)
       \o (IF f[2] = None THEN <<>> ELSE <<40 + StatedDigit(f[2])>>)
       \o [i \in 1..Len(f[3]) |-> StatedFlagCode(f[3][i])]

RECURSIVE Semicolons(_)
Semicolons(nums) ==
    IF Len(nums) = 0 THEN <<>>
    ELSE IF Len(nums) = 1 THEN to_string(nums[1])
    ELSE to_string(nums[1]) \o <<";">> \o Semicolons(Tail(nums))

RECURSIVE Spaced(_)
Spaced(words) ==
    IF Len(words) = 0 THEN <<>>
    ELSE IF Len(words) = 1 THEN words[1]
    ELSE words[1] \o <<" ">> \o Spaced(Tail(words))

StatedOutput(a) ==
    (IF a.reset THEN <<"ESC", "[", "m">> ELSE <<>>)
    \o (IF Len(StatedCodes(a)) # 0
          THEN <<"ESC", "[">> \o Semicolons(StatedCodes(a)) \o <<"m">> ELSE <<>>)
    \o Spaced(a.text)
    \o (IF a.no_reset THEN <<>> ELSE <<"ESC", "[", "m">>)
    \o (IF a.no_newline THEN <<>> ELSE <<"LF">>)

\* C3: format returns the bare reset if reset is set, then ESC[<codes>m if there
\* are codes (foreground, background, then the flags in the order given, joined
\* by ';'), then the text tokens joined by single spaces, then ESC[m unless
\* no_reset, then a newline unless no_newline; style=error alone yields
\* ESC[31m<text>ESC[m and a newline.
Thm_C3_FormatOutput ==
    pc = "returned" =>
        /\ ret = StatedOutput(input)
        /\ (input.style = "Error" /\ ~input.reset /\ ~input.no_reset
                /\ ~input.no_newline) =>
             ret = <<"ESC", "[", "3", "1", "m">> \o Spaced(input.text)
                      \o <<"ESC", "[", "m", "LF">>

Wit_C3_FormatOutput ==
    /\ pc = "returned"
    /\ input.style = None /\ input.reset /\ ~input.no_reset /\ ~input.no_newline
    /\ input.foreground = "BrightBlue" /\ input.background = "White"
    /\ input.options = <<"Underline", "Bold">>
    /\ input.text = <<Word(1), Word(2)>>
    /\ ret = <<"ESC", "[", "m", "ESC", "[", "9", "4", ";", "4", "7", ";", "4", ";",
               "1", "m", "h", "i", " ", "y", "o", "ESC", "[", "m", "LF">>

\* The command line --no-reset --no-newline --foreground R --background k hi.
IsCliOfC4(w) ==
    /\ w.foreground = "R" /\ w.background = "k"
    /\ w.style = None /\ w.options = <<>>
    /\ ~w.reset /\ w.no_reset /\ w.no_newline
    /\ w.text = << <<"h", "i">> >>

\* C4 as stated: with no_reset and no_newline, foreground R, background k, no
\* style, no options and the text "hi", format produces exactly ESC[31;40mhi.
Cex_C4_UpperRIsRed ==
    (pc = "done" /\ IsCliOfC4(argv)) =>
        stdout = <<"ESC", "[", "3", "1", ";", "4", "0", "m", "h", "i">>

\* C4 as amended: the name R is the bright red, so that command line produces
\* ESC[91;40mhi; it is the name r that produces ESC[31;40mhi.
Thm_C4_UpperRIsBrightRed ==
    pc = "done" =>
        /\ IsCliOfC4(argv) =>
             stdout = <<"ESC", "[", "9", "1", ";", "4", "0", "m", "h", "i">>
        /\ IsCliOfC4([argv EXCEPT !.foreground = "R"]) /\ argv.foreground = "r" =>
             stdout = <<"ESC", "[", "3", "1", ";", "4", "0", "m", "h", "i">>

Wit_C4_UpperRIsBrightRed ==
    /\ pc = "done"
    /\ IsCliOfC4(argv)
    /\ args.foreground = "BrightRed" /\ args.background = "Black"
    /\ stdout = <<"ESC", "[", "9", "1", ";", "4", "0", "m", "h", "i">>

\* C5: apply_style with a style overwrites whatever foreground, background and
\* options were there: debug gives background cyan, foreground black and
\* options [dim]; ok, notice, error, warn and info give only the foreground
\* green, magenta, red, yellow and cyan, no background and no options; the text
\* and the reset, no_reset and no_newline flags stay, and with no style nothing
\* changes.
Thm_C5_PresetOverwrites ==
    pc = "returned" =>
        /\ input.style = None => ret = input
        /\ input.style # None =>
             /\ ret.foreground = StatedPreset(input.style)[1]
             /\ ret.background = StatedPreset(input.style)[2]
             /\ ret.options = StatedPreset(input.style)[3]
        /\ input.style = "Debug" =>
             /\ ret.background = "Cyan" /\ ret.foreground = "Black"
             /\ ret.options = <<"Dim">>
        /\ ret.text = input.text /\ ret.reset = input.reset
        /\ ret.no_reset = input.no_reset /\ ret.no_newline = input.no_newline
        /\ ret.style = input.style

Wit_C5_PresetOverwrites ==
    /\ pc = "returned"
    /\ input.style = "Debug"
    /\ input.foreground = "BrightRed" /\ input.background = "White"
    /\ input.options = <<"Bold", "Underline">>
    /\ ret.foreground = "Black" /\ ret.background = "Cyan"
    /\ ret.options = <<"Dim">>

(***************************************************************************)
(* main.rs: f64 values.  A finite f64 is modelled by the rational it       *)
(* denotes, a record [n, d] in lowest terms with d > 0, and its arithmetic *)
(* by exact arithmetic; NaN is the value the code gets from 0.0 * (1.0 /   *)
(* 0.0).                                                                   *)
(***************************************************************************)
NaN == "NaN"

Abs(i) == IF i < 0 THEN -i ELSE i

RECURSIVE GCD(_, _)
GCD(a, b) == IF b = 0 THEN a ELSE GCD(b, a % b)

Rat(n, d) ==
    LET g == GCD(Abs(n), Abs(d))
        sg == IF d < 0 THEN -1 ELSE 1
    IN [n |-> (sg * n) \div g, d |-> (sg * d) \div g]

Int2F(i) == [n |-> i, d |-> 1]

f64_add(a, b) == Rat(a.n * b.d + b.n * a.d, a.d * b.d)
f64_sub(a, b) == Rat(a.n * b.d - b.n * a.d, a.d * b.d)
f64_mul(a, b) == Rat(a.n * b.n, a.d * b.d)
f64_lt(a, b) == a.n * b.d < b.n * a.d
f64_le(a, b) == a.n * b.d <= b.n * a.d
f64_abs(a) == [n |-> Abs(a.n), d |-> a.d]

\* The integer part of n / d, rounded toward zero (d > 0).
Trunc(n, d) == IF n >= 0 THEN n \div d ELSE -((-n) \div d)

\* a % m for a positive integer m: the remainder has the sign of a.
f64_rem(a, m) == f64_sub(a, Int2F(m * Trunc(a.n, a.d * m)))

\* f64::round: to the nearest integer, halves away from zero.
f64_round(a) ==
    IF a.n >= 0 THEN (2 * a.n + a.d) \div (2 * a.d)
    ELSE -((2 * (-a.n) + a.d) \div (2 * a.d))

\* The cast `as u8`: it saturates.
as_u8(i) == IF i < 0 THEN 0 ELSE IF i > 255 THEN 255 ELSE i

(***************************************************************************)
(* main.rs: u8 arithmetic.  An addition or multiplication yields the       *)
(* wrapped value and whether it overflowed: the build with overflow checks *)
(* panics there, the build without them goes on with the wrapped value.    *)
(***************************************************************************)
u8(v) == [value |-> v, overflow |-> FALSE]

u8_add(a, b) ==
    [value |-> (a.value + b.value) % 256,
     overflow |-> a.overflow \/ b.overflow \/ a.value + b.value > 255]

u8_mul(a, b) ==
    [value |-> (a.value * b.value) % 256,
     overflow |-> a.overflow \/ b.overflow \/ a.value * b.value > 255]

saturating_sub(a, b) == IF a >= b THEN a - b ELSE 0

Min(a, b) == IF a <= b THEN a ELSE b

(***************************************************************************)
(* main.rs: range.                                                         *)
(***************************************************************************)
\* range without the truncation of the tail.
range_keep_tail(resolution, truncate_head, truncate_tail, offset) ==
    IF saturating_sub(saturating_sub(resolution, truncate_head), truncate_tail) = 0
      THEN <<>>
      ELSE LET den == saturating_sub(resolution, 1)
           IN [k \in 1..(resolution - truncate_head) |->
                 IF den = 0 THEN NaN
                 ELSE f64_rem(f64_add(Rat(truncate_head + k - 1, den), offset), 1)]

range(resolution, truncate_head, truncate_tail, offset) ==
    IF saturating_sub(saturating_sub(resolution, truncate_head), truncate_tail) = 0
      THEN <<>>
      ELSE LET den == saturating_sub(resolution, 1)
               end == saturating_sub(resolution, truncate_tail)
           IN [k \in 1..(end - truncate_head) |->
                 \* i = truncate_head + k - 1; factor = 1.0 / den
                 IF den = 0 THEN NaN
                 ELSE f64_rem(f64_add(Rat(truncate_head + k - 1, den), offset), 1)]

(***************************************************************************)
(* main.rs: Color, a triple of f64.                                        *)
(***************************************************************************)
\* from_hsv with the last sector's triple taken from the first sector.
from_hsv_last_as_first(h0, s, v) ==
    LET h == f64_mul(h0, Int2F(360))
        c == f64_mul(v, s)
        x == f64_mul(c, f64_sub(Int2F(1),
                 f64_abs(f64_sub(f64_rem(f64_mul(h, Rat(1, 60)), 2), Int2F(1)))))
        m == f64_sub(v, c)
        zero == Int2F(0)
        t == IF f64_lt(h, Int2F(60)) THEN <<c, x, zero>>
             ELSE IF f64_lt(h, Int2F(120)) THEN <<x, c, zero>>
             ELSE IF f64_lt(h, Int2F(180)) THEN <<zero, c, x>>
             ELSE IF f64_lt(h, Int2F(240)) THEN <<zero, x, c>>
             ELSE IF f64_lt(h, Int2F(300)) THEN <<x, zero, c>>
             ELSE <<c, x, zero>>
    IN <<f64_add(t[1], m), f64_add(t[2], m), f64_add(t[3], m)>>

from_hsv(h0, s, v) ==
    LET h == f64_mul(h0, Int2F(360))
        c == f64_mul(v, s)
        x == f64_mul(c, f64_sub(Int2F(1),
                 f64_abs(f64_sub(f64_rem(f64_mul(h, Rat(1, 60)), 2), Int2F(1)))))
        m == f64_sub(v, c)
        zero == Int2F(0)
        t == IF f64_lt(h, Int2F(60)) THEN <<c, x, zero>>
             ELSE IF f64_lt(h, Int2F(120)) THEN <<x, c, zero>>
             ELSE IF f64_lt(h, Int2F(180)) THEN <<zero, c, x>>
             ELSE IF f64_lt(h, Int2F(240)) THEN <<zero, x, c>>
             ELSE IF f64_lt(h, Int2F(300)) THEN <<x, zero, c>>
             ELSE <<c, zero, x>>
    IN <<f64_add(t[1], m), f64_add(t[2], m), f64_add(t[3], m)>>

as_bytes(color) ==
    [i \in 1..3 |-> as_u8(f64_round(f64_mul(color[i], Int2F(255))))]

eic_luminosity(color) ==
    f64_add(f64_add(f64_mul(Rat(2126, 10000), color[1]),
                    f64_mul(Rat(7152, 10000), color[2])),
            f64_mul(Rat(722, 10000), color[3]))

\* nearest_ansi_color_code without the .min(5) on the channel levels.
nearest_ansi_color_code_no_min(color) ==
    LET bytes == as_bytes(color)
        r == u8(bytes[1] \div 32)
        g == u8(bytes[2] \div 32)
        b == u8(bytes[3] \div 32)
    IN u8_add(u8_add(u8_add(u8(16), u8_mul(u8(36), r)), u8_mul(u8(6), g)), b)

nearest_ansi_color_code(color) ==
    LET bytes == as_bytes(color)
        r == u8(Min(bytes[1] \div 32, 5))
        g == u8(Min(bytes[2] \div 32, 5))
        b == u8(Min(bytes[3] \div 32, 5))
    IN u8_add(u8_add(u8_add(u8(16), u8_mul(u8(36), r)), u8_mul(u8(6), g)), b)

(***************************************************************************)
(* SpecRange: range on small resolutions, truncations and offsets.         *)
(***************************************************************************)
\* Hue offsets in degrees: a negative one, none, a small one, over a turn.
OffsetDegrees == {-90, 0, 45, 450}

InitRange ==
    /\ pc = "call"
    /\ input \in [resolution : 0..MaxResolution,
                   truncate_head : 0..MaxTruncate,
                   truncate_tail : 0..MaxTruncate,
                   offset : {Rat(deg, 360) : deg \in OffsetDegrees}]
    /\ ret = None
    /\ argv = None /\ args = None /\ stdout = None /\ grid = None

CallRange ==
    /\ pc = "call"
    /\ ret' = range(input.resolution, input.truncate_head, input.truncate_tail,
                    input.offset)
    /\ pc' = "returned"
    /\ UNCHANGED <<argv, args, stdout, grid, input>>

NextRange == CallRange

SpecRange == InitRange /\ [][NextRange]_vars

(***************************************************************************)
(* SpecColor: from_hsv on a grid of coordinates, and                       *)
(* nearest_ansi_color_code on its results and on colours of given bytes.   *)
(***************************************************************************)
HueSamples == {Rat(k, HueGrid) : k \in 0..(HueGrid - 1)}

UnitSamples == {Rat(k, SvGrid) : k \in 0..SvGrid}

\* The first and the last byte of each of the eight 32-wide bands.
ByteSamples == UNION {{32 * k, 32 * k + 31} : k \in 0..7}

\* The colour whose components are the bytes t over 255.
ColorOfBytes(t) == <<Rat(t[1], 255), Rat(t[2], 255), Rat(t[3], 255)>>

IsHsv(in) == "h" \in DOMAIN in

InitColor ==
    /\ \/ /\ pc = "hsv"
          /\ input \in [h : HueSamples, s : UnitSamples, v : UnitSamples]
          /\ ret = None
       \/ /\ pc = "color"
          /\ input \in [bytes : ByteSamples \X ByteSamples \X ByteSamples]
          /\ ret = [color |-> ColorOfBytes(input.bytes)]
    /\ argv = None /\ args = None /\ stdout = None /\ grid = None

CallFromHsv ==
    /\ pc = "hsv"
    /\ ret' = [color |-> from_hsv(input.h, input.s, input.v)]
    /\ pc' = "color"
    /\ UNCHANGED <<argv, args, stdout, grid, input>>

CallNearestAnsiColorCode ==
    /\ pc = "color"
    /\ ret' = [color |-> ret.color, code |-> nearest_ansi_color_code(ret.color)]
    /\ pc' = "code"
    /\ UNCHANGED <<argv, args, stdout, grid, input>>

NextColor == CallFromHsv \/ CallNearestAnsiColorCode

SpecColor == InitColor /\ [][NextColor]_vars

(***************************************************************************)
(* Claims on from_hsv, nearest_ansi_color_code and range.                  *)
(***************************************************************************)
One == Int2F(1)

Zero == Int2F(0)

\* C1 as stated: for every hue h in [0,1) and every s and v in [0,1],
\* from_hsv(h + 1, s, v) is the same triple as from_hsv(h, s, v).
Cex_C1_HueWraps ==
    (pc = "color" /\ IsHsv(input)) =>
        from_hsv(f64_add(input.h, One), input.s, input.v) = ret.color

\* C1 as amended: from_hsv does not reduce the hue, it takes every hue of 300
\* degrees or more for the last sector; so, in exact arithmetic, for h in [0,1)
\* from_hsv(h + 1, s, v) equals from_hsv(h, s, v) exactly when h >= 5/6, h = 0,
\* s = 0 or v = 0, and differs in every other case.
Thm_C1_HueWrapsOnlyInLastSector ==
    (pc = "color" /\ IsHsv(input)) =>
        (from_hsv(f64_add(input.h, One), input.s, input.v) = ret.color
            <=> \/ f64_le(Rat(5, 6), input.h)
                \/ input.h = Zero \/ input.s = Zero \/ input.v = Zero)

Wit_C1_HueWrapsOnlyInLastSector ==
    /\ pc = "color" /\ IsHsv(input)
    /\ input.h = Rat(1, 3) /\ input.s = One /\ input.v = One
    /\ ret.color = <<Zero, One, Zero>>
    /\ from_hsv(Rat(4, 3), One, One) = <<One, Zero, Zero>>

\* The channel level of a byte: the byte divided by 32, at most 5.
StatedLevel(byte) == IF byte \div 32 > 5 THEN 5 ELSE byte \div 32

\* C2: for every colour, whatever its bytes in 0..255, the palette index is in
\* 16..231 and is 16 + 36*r + 6*g + b with each level min(byte / 32, 5), no step
\* of it overflows a u8, black maps to 16 and white to 231.
Thm_C2_PaletteIndex ==
    pc = "code" =>
        LET bytes == as_bytes(ret.color)
        IN /\ ~ret.code.overflow
           /\ ret.code.value \in 16..231
           /\ ret.code.value = 16 + 36 * StatedLevel(bytes[1])
                                  + 6 * StatedLevel(bytes[2]) + StatedLevel(bytes[3])
           /\ ret.color = <<Zero, Zero, Zero>> => ret.code.value = 16
           /\ ret.color = <<One, One, One>> => ret.code.value = 231

Wit_C2_PaletteIndex ==
    /\ pc = "code"
    /\ ret.color = <<One, One, One>>
    /\ as_bytes(ret.color) = <<255, 255, 255>>
    /\ ret.code = [value |-> 231, overflow |-> FALSE]

\* x mod 1, the fractional part: the value in [0,1) that differs from x by an
\* integer.
Mod1(x) == Rat(x.n % x.d, x.d)

\* C6 as stated: range returns the empty sequence when resolution -
\* truncate_head - truncate_tail <= 0, and otherwise the values
\* (i/(resolution-1) + offset) mod 1 for i from truncate_head to resolution -
\* truncate_tail - 1 in increasing order; range(5,1,1,0) is 1/4, 1/2, 3/4,
\* range(1,1,1,0) is empty, and with both truncations 1 and offset 0 every
\* element is strictly between 0 and 1.  (Where resolution is 1 the quotient
\* i/(resolution-1) is not defined and nothing is asked of the elements.)
Cex_C6_RangeValues ==
    pc = "returned" =>
        LET res == input.resolution
            th == input.truncate_head
            tt == input.truncate_tail
        IN /\ res - th - tt <= 0 => ret = <<>>
           /\ res - th - tt > 0 =>
                /\ Len(ret) = res - th - tt
                /\ res > 1 =>
                     \A k \in 1..Len(ret) :
                        ret[k] = Mod1(f64_add(Rat(th + k - 1, res - 1), input.offset))
           /\ (res = 5 /\ th = 1 /\ tt = 1 /\ input.offset = Zero) =>
                ret = <<Rat(1, 4), Rat(1, 2), Rat(3, 4)>>
           /\ (th = 1 /\ tt = 1 /\ input.offset = Zero) =>
                \A k \in 1..Len(ret) : f64_lt(Zero, ret[k]) /\ f64_lt(ret[k], One)

(***************************************************************************)
(* main.rs: what print writes for one colour.  The label's foreground      *)
(* colour is a power with a real exponent (powf) of the luminosity and is  *)
(* left out of the cell; the background and the label are modelled.        *)
(***************************************************************************)
HexChars == <<"0", "1", "2", "3", "4", "5", "6", "7", "8", "9",
              "A", "B", "C", "D", "E", "F">>

\* {:02X} of a byte.
Hex2(byte) == <<HexChars[(byte \div 16) + 1], HexChars[(byte % 16) + 1]>>

\* The Display of an integer-valued number.
display_int(i) == IF i < 0 THEN <<"-">> \o to_string(-i) ELSE to_string(i)

Spaces(k) == [i \in 1..k |-> " "]

\* {:>w}: right-aligned in a field of width w.
AlignRight(str, w) == Spaces(saturating_sub(w, Len(str))) \o str

\* {:^w}: centred in a field of width w, the odd space on the right.
AlignCenter(str, w) ==
    LET pad == saturating_sub(w, Len(str))
    IN Spaces(pad \div 2) \o str \o Spaces(pad - (pad \div 2))

display_hex(color) ==
    LET bytes == as_bytes(color)
    IN Hex2(bytes[1]) \o Hex2(bytes[2]) \o Hex2(bytes[3])

bg(color) ==
    LET bytes == as_bytes(color)
    IN <<"ESC", "[", "4", "8", ";", "2", ";">> \o to_string(bytes[1]) \o <<";">>
         \o to_string(bytes[2]) \o <<";">> \o to_string(bytes[3]) \o <<"m">>

\* The percentage (x * 100.0).round().
Percent(x) == f64_round(f64_mul(x, Int2F(100)))

print(color, display) ==
    LET luminosity == eic_luminosity(color)
        color_code == nearest_ansi_color_code(color).value
        background ==
            IF display = "Ansi"
              THEN <<"ESC", "[", "4", "8", ";", "5", ";">> \o to_string(color_code)
                     \o <<"m">>
              ELSE bg(color)
        text ==
            CASE display = "Ansi" -> AlignCenter(to_string(color_code), 6)
              [] display = "Rgb" -> display_hex(color)
              [] display = "Lum" ->
                   AlignRight(display_int(Percent(luminosity)), 3) \o <<"%">>
              [] display = "None" -> <<>>
    IN [background |-> background, text |-> AlignCenter(text, 9)]

(***************************************************************************)
(* main.rs: main, step by step.                                            *)
(***************************************************************************)
DisplayOptions == {"Rgb", "Ansi", "Lum", "None"}

\* Option<u8>: the empty sequence is None, <<n>> is Some(n).
IsSome(opt) == Len(opt) = 1

\* The resolutions given on the command line: small ones, and the two u8
\* values at which adding 2 overflows.
SampleCounts == (0..MaxSamples) \cup {254, 255}

SwatchArgs ==
    [hues : (0..MaxHues) \cup {255},
     values : SampleCounts,
     saturations : SampleCounts,
     resolution : {<<>>} \cup {<<n>> : n \in SampleCounts},
     offset : OffsetDegrees,
     display : DisplayOptions,
     legend : BOOLEAN]

InitSwatch ==
    /\ pc = "start"
    /\ args \in SwatchArgs
    /\ stdout = <<>>
    /\ grid = None
    /\ argv = None /\ input = None /\ ret = None

\* Lines 54-57: the resolution replaces values and saturations.
Override ==
    /\ pc = "start"
    /\ args' = IF IsSome(args.resolution)
                 THEN [args EXCEPT !.values = args.resolution[1],
                                   !.saturations = args.resolution[1]]
                 ELSE args
    /\ pc' = "range"
    /\ UNCHANGED <<argv, stdout, grid, input, ret>>

\* The three u8 sums of lines 58-60.
Resolutions(a) ==
    [hues |-> u8_add(u8(a.hues), u8(1)),
     values |-> u8_add(u8(a.values), u8(2)),
     saturations |-> u8_add(u8(a.saturations), u8(2))]

Overflows(a) ==
    \/ Resolutions(a).hues.overflow
    \/ Resolutions(a).values.overflow
    \/ Resolutions(a).saturations.overflow

Reverse(seq) == [i \in 1..Len(seq) |-> seq[Len(seq) + 1 - i]]

\* Lines 58-61.  Where a sum overflows, this is the build without overflow
\* checks, which goes on with the wrapped sum.
BuildGrid ==
    /\ pc = "range"
    /\ grid' = [hues |-> range(Resolutions(args).hues.value, 0, 1,
                               Rat(args.offset, 360)),
                values |-> range(Resolutions(args).values.value, 1, 1, Int2F(0)),
                saturations |->
                    Reverse(range(Resolutions(args).saturations.value, 1, 1,
                                  Int2F(0))),
                next |-> 1]
    /\ pc' = "legend"
    /\ UNCHANGED <<argv, args, stdout, input, ret>>

\* Lines 58-60 in the build with overflow checks: an overflowing sum panics.
BuildGridPanics ==
    /\ pc = "range"
    /\ Overflows(args)
    /\ pc' = "panicked"
    /\ UNCHANGED <<argv, args, stdout, grid, input, ret>>

is_table(g) == Len(g.values) # 0 \/ Len(g.saturations) # 0

\* main's legend with the display mode not looked at.
legend_any_display(a) == a.legend

legend(a) == a.legend /\ a.display # "Ansi"

RECURSIVE Concat(_)
Concat(strs) == IF Len(strs) = 0 THEN <<>> ELSE strs[1] \o Concat(Tail(strs))

\* The header line of lines 65-72, without its newline.
Header(g) ==
    Concat([i \in 1..Len(g.values) |->
              <<" ">> \o AlignRight(display_int(Percent(g.values[i])), 3)
                \o <<"%", " ", "v", " ", " ">>])
    \o <<" ", "v", "a", "l", "/", "s", "a", "t", " ">>
    \o Concat([i \in 1..Len(g.saturations) |->
                 <<" ">> \o AlignRight(display_int(Percent(g.saturations[i])), 3)
                   \o <<"%", " ", "s", " ", " ">>])

\* Lines 62-73.
PrintLegend ==
    /\ pc = "legend"
    /\ stdout' = IF legend(args) /\ is_table(grid)
                   THEN Append(stdout, [kind |-> "header", text |-> Header(grid)])
                   ELSE stdout
    /\ pc' = "rows"
    /\ UNCHANGED <<argv, args, grid, input, ret>>

\* The colours of the row of hue h, lines 75-81.
RowColors(g, h) ==
    [i \in 1..Len(g.values) |-> from_hsv(h, Int2F(1), g.values[i])]
    \o <<from_hsv(h, Int2F(1), Int2F(1))>>
    \o [i \in 1..Len(g.saturations) |-> from_hsv(h, g.saturations[i], Int2F(1))]

\* One turn of the loop of lines 74-86.
PrintRow ==
    /\ pc = "rows"
    /\ grid.next <= Len(grid.hues)
    /\ LET h == grid.hues[grid.next]
           colors == RowColors(grid, h)
       IN stdout' = Append(stdout,
             [kind |-> "row",
              colors |-> colors,
              cells |-> [i \in 1..Len(colors) |-> print(colors[i], args.display)],
              text |-> IF legend(args)
                         THEN <<" ", "h", "u", "e", ":", " ">>
                                \o display_int(f64_round(f64_mul(h, Int2F(360))))
                         ELSE <<>>])
    /\ grid' = [grid EXCEPT !.next = grid.next + 1]
    /\ UNCHANGED <<pc, argv, args, input, ret>>

FG_BLACK == <<"ESC", "[", "3", "8", ";", "2", ";", "0", ";", "0", ";", "0", "m">>
FG_GREY == <<"ESC", "[", "3", "8", ";", "5", ";", "2", "5", "0", "m">>

\* One cell of the two palette blocks, lines 93-95 and 103-105.
PaletteCell(i, grey_up_to) ==
    <<"ESC", "[", "4", "8", ";", "5", ";">> \o to_string(i) \o <<"m">>
    \o (IF i <= grey_up_to THEN FG_GREY ELSE FG_BLACK)
    \o AlignCenter(to_string(i), 9) \o RESET

\* The lines of lines 89-107: a line ends before every eighth cell and after
\* the last.
PaletteLines(first, last, grey_up_to) ==
    <<[kind |-> "blank"]>>
    \o [k \in 1..(((last - first) \div 8) + 1) |->
          [kind |-> "palette",
           text |-> Concat([j \in 1..Min(8, last - first - 8 * (k - 1) + 1) |->
                              PaletteCell(first + 8 * (k - 1) + j - 1, grey_up_to)])]]

\* Lines 87-108, once the loop over the hues has ended.
PrintPalette ==
    /\ pc = "rows"
    /\ grid.next > Len(grid.hues)
    /\ stdout' = IF args.display = "Ansi"
                   THEN stdout \o PaletteLines(0, 15, 0) \o PaletteLines(232, 254, 237)
                   ELSE stdout
    /\ pc' = "done"
    /\ UNCHANGED <<argv, args, grid, input, ret>>

NextSwatch ==
    Override \/ BuildGrid \/ BuildGridPanics \/ PrintLegend \/ PrintRow \/ PrintPalette

SpecSwatch == InitSwatch /\ [][NextSwatch]_vars

(***************************************************************************)
(* Claims on the swatch tool.                                              *)
(***************************************************************************)
GridBuilt == pc \in {"legend", "rows", "done"}

RowLines == {i \in 1..Len(stdout) : stdout[i].kind = "row"}

HeaderLines == {i \in 1..Len(stdout) : stdout[i].kind = "header"}

Distinct(seq) == \A i, j \in 1..Len(seq) : seq[i] = seq[j] => i = j

\* C7 as stated: for every hues, the hue sample sequence has length hues + 1,
\* so that the grid prints hues + 1 rows; it contains a sample at hue 0 when
\* the offset is 0, and does not contain the wraparound point twice.  (Asked
\* here only of the hues for which hues + 1 fits a u8.)
Cex_C7_HueCount ==
    (GridBuilt /\ args.hues <= 254) =>
        /\ Len(grid.hues) = args.hues + 1
        /\ args.offset = 0 => \E k \in 1..Len(grid.hues) : grid.hues[k] = Zero
        /\ Distinct(grid.hues)
        /\ pc = "done" => Cardinality(RowLines) = args.hues + 1

\* C7 as amended: for hues up to 254 the hue sample sequence has length hues,
\* not hues + 1 (range drops the last of its hues + 1 points), and the grid
\* prints hues rows; for hues = 255, where hues + 1 overflows, the build that
\* goes on builds no sample and prints no row; with offset 0 and at least one
\* sample the first sample is hue 0; and, in exact arithmetic, no value is in
\* the sequence twice.
Thm_C7_HueCountIsHues ==
    GridBuilt =>
        /\ args.hues <= 254 => Len(grid.hues) = args.hues
        /\ args.hues = 255 => Len(grid.hues) = 0
        /\ (args.offset = 0 /\ Len(grid.hues) > 0) => grid.hues[1] = Zero
        /\ Distinct(grid.hues)
        /\ pc = "done" => Cardinality(RowLines) = Len(grid.hues)

Wit_C7_HueCountIsHues ==
    /\ pc = "done"
    /\ args.hues = 3 /\ args.offset = 0
    /\ grid.hues = <<Zero, Rat(1, 3), Rat(2, 3)>>
    /\ Cardinality(RowLines) = 3

\* C8 as stated: the header line and the hue trailer of a row are written only
\* when the legend flag is set, the display mode is not ansi and at least one
\* of the value and saturation sequences is non-empty.
Cex_C8_LegendOnlyForTable ==
    \A i \in 1..Len(stdout) :
        (\/ stdout[i].kind = "header"
         \/ stdout[i].kind = "row" /\ Len(stdout[i].text) # 0) =>
            /\ args.legend /\ args.display # "Ansi"
            /\ Len(grid.values) # 0 \/ Len(grid.saturations) # 0

\* C8 as amended: the header line is written exactly when the legend flag is
\* set, the display mode is not ansi and at least one of the value and
\* saturation sequences is non-empty, and it is the first line; the hue
\* trailer is written on every row exactly when the legend flag is set and the
\* display mode is not ansi, also when both sequences are empty.
Thm_C8_TrailerWithoutTable ==
    /\ pc \in {"rows", "done"} =>
         /\ HeaderLines # {} <=>
              /\ args.legend /\ args.display # "Ansi"
              /\ Len(grid.values) # 0 \/ Len(grid.saturations) # 0
         /\ HeaderLines \subseteq {1}
    /\ \A i \in RowLines :
         Len(stdout[i].text) # 0 <=> (args.legend /\ args.display # "Ansi")

Wit_C8_TrailerWithoutTable ==
    /\ pc = "done"
    /\ args.legend /\ args.display = "Rgb" /\ args.hues = 2 /\ args.offset = 0
    /\ Len(grid.values) = 0 /\ Len(grid.saturations) = 0
    /\ HeaderLines = {}
    /\ RowLines = {1, 2}
    /\ stdout[2].text = <<" ", "h", "u", "e", ":", " ", "1", "8", "0">>

InUnit(x) == f64_le(Zero, x) /\ f64_le(x, One)

\* C9: for every hue resolution and every hue offset, positive, zero or
\* negative, every hue sample is in [0,1), so that the hue from_hsv scales is in
\* [0,360), and every component of every colour of the grid is in [0,1].
Cex_C9_HueSamplesInUnit ==
    GridBuilt =>
        /\ \A k \in 1..Len(grid.hues) :
             f64_le(Zero, grid.hues[k]) /\ f64_lt(grid.hues[k], One)
        /\ \A i \in RowLines : \A j \in 1..Len(stdout[i].colors) :
             \A ch \in 1..3 : InUnit(stdout[i].colors[j][ch])

\* C10: building the grid is total: for every hues, values, saturations and
\* resolution in 0..255 the sums hues + 1, values + 2 and saturations + 2 do
\* not overflow a u8, and the value and saturation sequences hold exactly
\* values and saturations points (the resolution, when given, being both).
Cex_C10_GridIsTotal ==
    /\ pc # "panicked"
    /\ GridBuilt =>
         /\ ~Overflows(args)
         /\ Len(grid.values) = args.values
         /\ Len(grid.saturations) = args.saturations

====
